---------------------------- MODULE Spec2Model ----------------------------
(***************************************************************************)
(* A model of go-serverless-yt: the storage access layer (pkg/user) and    *)
(* the request dispatch layer (pkg/handlers) of a CRUD service for a       *)
(* single "user" resource kept in a DynamoDB table whose primary key is    *)
(* the attribute "email".                                                  *)
(*                                                                         *)
(* Every request is served by its own short-lived invocation.  An          *)
(* invocation decodes and validates its input, issues its backend call     *)
(* (FetchUsers: one call per page) and turns the outcome into a response.  *)
(* Invocations of different clients interleave at backend calls, each of   *)
(* which the table executes atomically.                                    *)
(***************************************************************************)
EXTENDS Integers, Sequences, FiniteSets, TLC

VARIABLES
    table,      \* the DynamoDB table: key (email) -> item
    clients,    \* client -> the state of its invocation
    keys,       \* the well-formed emails that requests are about
    created     \* history: key -> the User of the successful CreateUser that
                \* wrote the key's item, while no later write touched the key

vars == <<table, clients, keys, created>>

(***************************************************************************)
(* Bounds of the model.                                                    *)
(***************************************************************************)
\* A Scan page holds between 1 and MaxPageSize items.
MaxPageSize == 2

\* The clients that send requests concurrently.
Clients == {"c1", "c2"}

\* The strings a request supplies as an email: two well-formed addresses,
\* and one that is not.  The empty string arises from an absent JSON field.
WellFormedEmails == {"a@x.com", "b@x.com"}
MalformedEmails == {"not-an-email"}
EmailInputs == WellFormedEmails \cup MalformedEmails

\* The non-empty strings a request supplies as a first or last name.
NameInputs == {"A"}

\* The order in which a Scan walks the table (the backend's, not the
\* program's; any fixed order of the keys).
KeyOrder == <<"b@x.com", "a@x.com">>

(***************************************************************************)
(* user.go: error messages                                                 *)
(***************************************************************************)
NoError == ""
ErrorFailedToUnmarshalRecord == "failed to unmarshal record"
ErrorFailedToFetchRecord == "failed to fetch record"
ErrorInvalidUserData == "invalid user data"
ErrorInvalidEmail == "invalid email"
ErrorCouldNotMarshalItem == "could not marshal item"
ErrorCouldNotDeleteItem == "could not delete item"
ErrorCouldNotPutItem == "could not put item"
ErrorUserAlreadyExists == "user already exists"
ErrorUserDoesNotExist == "user does not exist"
ErrorMethodNotAllowed == "Method not allowed"

(***************************************************************************)
(* net/http status codes used by the handlers                              *)
(***************************************************************************)
StatusOK == 200
StatusCreated == 201
StatusNoContent == 204
StatusMethodNotAllowed == 405
StatusInternalServerError == 500

(***************************************************************************)
(* The User struct, and its JSON decoding.                                 *)
(***************************************************************************)
User(email, firstName, lastName) ==
    [Email |-> email, FirstName |-> firstName, LastName |-> lastName]

\* user := User{}
ZeroUser == User("", "", "")

\* The field tags of User: the JSON (and attribute) name of every field.
FieldNames == {"email", "firstName", "lastName"}

\* A JSON object with the fields D, the email e and the name n in every
\* name field it has.
JsonObject(D, e, n) == [f \in D |-> IF f = "email" THEN e ELSE n]

\* The request bodies: text that json.Unmarshal rejects, an object whose email is not
\* well-formed, and the objects with a well-formed email and any of the two
\* name fields.
NotJson == [valid |-> FALSE, obj |-> [f \in {} |-> ""]]

Bodies(emails) ==
    {NotJson}
        \cup { [valid |-> TRUE, obj |-> JsonObject({"email"}, e, "")] : e \in MalformedEmails }
        \cup { [valid |-> TRUE, obj |-> JsonObject({"email"} \cup D, e, n)] :
                  D \in SUBSET {"firstName", "lastName"}, e \in emails,
                  n \in NameInputs }

\* json.Unmarshal([]byte(req.Body), &user): a field absent from the object
\* keeps the value it had in user.
jsonUnmarshal(body, user) ==
    IF ~body.valid
    THEN [err |-> TRUE, user |-> user]
    ELSE [err |-> FALSE,
          user |-> User(IF "email" \in DOMAIN body.obj THEN body.obj["email"] ELSE user.Email,
                        IF "firstName" \in DOMAIN body.obj THEN body.obj["firstName"] ELSE user.FirstName,
                        IF "lastName" \in DOMAIN body.obj THEN body.obj["lastName"] ELSE user.LastName)]

ParseAddressNeverFails(email) == FALSE

\* mail.ParseAddress(user.Email): nil error exactly for an RFC 5322 address.
\* Over the strings of the model: the two well-formed ones.
ParseAddressFails(email) == email \notin WellFormedEmails

(***************************************************************************)
(* dynamodbattribute: User <-> attribute map                               *)
(***************************************************************************)
AttrS(s) == [T |-> "S", V |-> s]
AttrNULL == [T |-> "NULL", V |-> ""]

\* The encoder's NullEmptyString default: "" is written as NULL.
encodeString(s) == IF s = "" THEN AttrNULL ELSE AttrS(s)

MarshalMapBadName(user) ==
    [a \in {"email", "fieldName", "lastName"} |->
        CASE a = "email" -> encodeString(user.Email)
          [] a = "fieldName" -> encodeString(user.FirstName)
          [] OTHER -> encodeString(user.LastName)]

\* dynamodbattribute.MarshalMap(user): one attribute per field, named by its
\* tag.  It returns no error for a struct of strings.
MarshalMap(user) ==
    [a \in FieldNames |->
        CASE a = "email" -> encodeString(user.Email)
          [] a = "firstName" -> encodeString(user.FirstName)
          [] OTHER -> encodeString(user.LastName)]

\* The decoder on one string field: S gives its value, NULL the zero
\* value, an attribute that is absent leaves the field as it was.
decodeFails(av, name) == name \in DOMAIN av /\ av[name].T \notin {"S", "NULL"}

decodeString(av, name, old) ==
    IF name \notin DOMAIN av THEN old
    ELSE IF av[name].T = "S" THEN av[name].V
    ELSE ""

\* dynamodbattribute.UnmarshalMap(av, &user)
UnmarshalMap(av, user) ==
    [err |-> \E a \in FieldNames : decodeFails(av, a),
     user |-> User(decodeString(av, "email", user.Email),
                   decodeString(av, "firstName", user.FirstName),
                   decodeString(av, "lastName", user.LastName))]

\* dynamodbattribute.UnmarshalListOfMaps(result.Items, items)
UnmarshalListOfMaps(avs) ==
    [err |-> \E i \in 1..Len(avs) : UnmarshalMap(avs[i], ZeroUser).err,
     users |-> [i \in 1..Len(avs) |-> UnmarshalMap(avs[i], ZeroUser).user]]

\* fmt.Sprintf("%s = :%s", fieldName, fieldName): one SET clause, as the
\* path it assigns and the placeholder it reads.
updateExpressionPart(fieldName) ==
    [path |-> fieldName, value |-> ":" \o fieldName]

(***************************************************************************)
(* The backend: a DynamoDB table with key schema {email}.  The table is a  *)
(* function from the keys of its items to the items.  Every operation      *)
(* validates its request, then acts atomically; the outcome is the new     *)
(* table, the output and the error the client receives ("" for none).      *)
(* fault: the call fails for a reason of the service (throttling, an       *)
(* internal error, the network), which the program neither causes nor      *)
(* retries.                                                                *)
(***************************************************************************)
KeySchema == {"email"}

NoAwsError == ""
ConditionalCheckFailedException == "ConditionalCheckFailedException"
ValidationException == "ValidationException"
InternalServerError == "InternalServerError"

EmptyTable == [k \in {} |-> MarshalMap(ZeroUser)]
NoItem == [a \in {} |-> AttrNULL]
NoKey == <<>>

\* A Key must hold exactly the attributes of the key schema, each a string;
\* the backend rejects any other ("The provided key element does not match
\* the schema") before it reads the table or evaluates a condition.
ValidKey(key) ==
    /\ DOMAIN key = KeySchema
    /\ \A a \in KeySchema : key[a].T = "S"

\* An Item must hold every attribute of the key schema, each a string.
ValidItem(item) ==
    /\ KeySchema \subseteq DOMAIN item
    /\ \A a \in KeySchema : item[a].T = "S"

\* The item a condition expression is evaluated against: the one stored
\* under the key, or one with no attribute.
Existing(tbl, k) == IF k \in DOMAIN tbl THEN tbl[k] ELSE NoItem

ConditionHolds(expr, existing) ==
    CASE expr = "attribute_not_exists(email)" -> "email" \notin DOMAIN existing
      [] expr = "attribute_exists(email)" -> "email" \in DOMAIN existing
      [] OTHER -> TRUE

Store(tbl, k, item) ==
    [x \in DOMAIN tbl \cup {k} |-> IF x = k THEN item ELSE tbl[x]]

Remove(tbl, k) == [x \in DOMAIN tbl \ {k} |-> tbl[x]]

BackendOutcome(tbl, out, err) == [table |-> tbl, out |-> out, err |-> err]

\* dynaClient.GetItem(&input): the output's Item is nil when no item has
\* the key.
GetItem(tbl, input, fault) ==
    IF fault THEN BackendOutcome(tbl, NoItem, InternalServerError)
    ELSE IF ~ValidKey(input.Key) THEN BackendOutcome(tbl, NoItem, ValidationException)
    ELSE BackendOutcome(tbl, Existing(tbl, input.Key["email"].V), NoAwsError)

\* dynaClient.PutItem(&input)
PutItem(tbl, input, fault) ==
    IF fault THEN BackendOutcome(tbl, NoItem, InternalServerError)
    ELSE IF ~ValidItem(input.Item) THEN BackendOutcome(tbl, NoItem, ValidationException)
    ELSE LET k == input.Item["email"].V
         IN  IF ~ConditionHolds(input.ConditionExpression, Existing(tbl, k))
             THEN BackendOutcome(tbl, NoItem, ConditionalCheckFailedException)
             ELSE BackendOutcome(Store(tbl, k, input.Item), NoItem, NoAwsError)

\* The names ExpressionAttributeValues may hold: those that start with ":".
IsPlaceholder(name) == name \in { ":" \o a : a \in FieldNames \cup {"fieldName"} }

\* An update request is rejected before the table is read when its key does
\* not match the schema, its SET expression has no clause, a name of
\* ExpressionAttributeValues does not start with ":", or a clause reads a
\* placeholder that ExpressionAttributeValues does not define.
ValidUpdate(input) ==
    /\ ValidKey(input.Key)
    /\ Len(input.UpdateExpression) > 0
    /\ \A n \in DOMAIN input.ExpressionAttributeValues : IsPlaceholder(n)
    /\ \A i \in 1..Len(input.UpdateExpression) :
          input.UpdateExpression[i].value \in DOMAIN input.ExpressionAttributeValues

\* The item after the SET clauses of an update.
ApplySet(item, key, clauses, values) ==
    LET base == [a \in DOMAIN item \cup DOMAIN key |->
                    IF a \in DOMAIN key THEN key[a] ELSE item[a]]
        paths == { clauses[i].path : i \in 1..Len(clauses) }
        last(p) == CHOOSE i \in 1..Len(clauses) :
                     /\ clauses[i].path = p
                     /\ \A j \in 1..Len(clauses) : clauses[j].path = p => j <= i
    IN  [a \in DOMAIN base \cup paths |->
            IF a \in paths THEN values[clauses[last(a)].value] ELSE base[a]]

\* dynaClient.UpdateItem(&input), ReturnValues ALL_NEW
UpdateItem(tbl, input, fault) ==
    IF fault THEN BackendOutcome(tbl, NoItem, InternalServerError)
    ELSE IF ~ValidUpdate(input) THEN BackendOutcome(tbl, NoItem, ValidationException)
    ELSE LET k == input.Key["email"].V
         IN  IF ~ConditionHolds(input.ConditionExpression, Existing(tbl, k))
             THEN BackendOutcome(tbl, NoItem, ConditionalCheckFailedException)
             ELSE LET new == ApplySet(Existing(tbl, k), input.Key, input.UpdateExpression,
                                      input.ExpressionAttributeValues)
                  IN  BackendOutcome(Store(tbl, k, new), new, NoAwsError)

\* dynaClient.DeleteItem(&input)
DeleteItem(tbl, input, fault) ==
    IF fault THEN BackendOutcome(tbl, NoItem, InternalServerError)
    ELSE IF ~ValidKey(input.Key) THEN BackendOutcome(tbl, NoItem, ValidationException)
    ELSE LET k == input.Key["email"].V
         IN  IF ~ConditionHolds(input.ConditionExpression, Existing(tbl, k))
             THEN BackendOutcome(tbl, NoItem, ConditionalCheckFailedException)
             ELSE BackendOutcome(Remove(tbl, k), NoItem, NoAwsError)

Position(k) == CHOOSE i \in 1..Len(KeyOrder) : KeyOrder[i] = k

\* The keys a Scan has still to visit after the key `start`, in scan order.
KeysAfter(tbl, start) ==
    LET from == IF start = NoKey THEN 0 ELSE Position(start[1])
        Left(k) == k \in DOMAIN tbl /\ Position(k) > from
    IN  SelectSeq(KeyOrder, Left)

Min(a, b) == IF a <= b THEN a ELSE b

\* dynaClient.Scan(&input): one page of at most pageSize items after
\* ExclusiveStartKey.  LastEvaluatedKey is the key of the page's last item
\* when items remain, and may be (eager) when the page is full and none
\* remains; it is nil otherwise.
Scan(tbl, input, pageSize, eager, fault) ==
    IF fault THEN [Items |-> <<>>, LastEvaluatedKey |-> NoKey, err |-> InternalServerError]
    ELSE LET left == KeysAfter(tbl, input.ExclusiveStartKey)
             n == Min(pageSize, Len(left))
             page == SubSeq(left, 1, n)
         IN  [Items |-> [i \in 1..n |-> tbl[page[i]]],
              LastEvaluatedKey |->
                  IF Len(left) > n \/ (eager /\ n = pageSize) THEN <<page[n]>> ELSE NoKey,
              err |-> NoAwsError]

(***************************************************************************)
(* pkg/user: the storage access layer.  Each function is the request it    *)
(* builds for its backend call and what it returns for the call's outcome. *)
(* A return is the value (nil, or the users it points to) and the error.   *)
(***************************************************************************)
Return(val, err) == [nil |-> FALSE, val |-> val, err |-> err]
ReturnNil(err) == [nil |-> TRUE, val |-> <<>>, err |-> err]

\* FetchUser: input
FetchUserInput(email) == [Key |-> [a \in {"email"} |-> AttrS(email)]]

\* FetchUser: after dynaClient.GetItem
FetchUserReturn(outcome) ==
    IF outcome.err # NoAwsError THEN ReturnNil(ErrorFailedToFetchRecord)
    ELSE LET item == UnmarshalMap(outcome.out, ZeroUser)
         IN  IF item.err THEN ReturnNil(ErrorFailedToUnmarshalRecord)
             ELSE Return(<<item.user>>, NoError)

OnlyLastPage(users, items) == items

\* FetchUsers: users = append(users, *items...)
AppendUsers(users, items) == users \o items

\* FetchUsers: input (ExclusiveStartKey is set from the second page on)
FetchUsersInput(exclusiveStartKey) == [ExclusiveStartKey |-> exclusiveStartKey]

CreateUserInputUnconditional(user) ==
    [Item |-> MarshalMap(user),
     ConditionExpression |-> ""]

\* CreateUser: input
CreateUserInput(user) ==
    [Item |-> MarshalMap(user),
     ConditionExpression |-> "attribute_not_exists(email)"]

CreateUserReturnNoSwitch(user, outcome) ==
    IF outcome.err = NoAwsError THEN Return(<<user>>, NoError)
    ELSE ReturnNil(ErrorCouldNotPutItem)

\* CreateUser: after dynaClient.PutItem
CreateUserReturn(user, outcome) ==
    IF outcome.err = NoAwsError THEN Return(<<user>>, NoError)
    ELSE IF outcome.err = ConditionalCheckFailedException
    THEN ReturnNil(ErrorUserAlreadyExists)
    ELSE ReturnNil(ErrorCouldNotPutItem)

\* UpdateUser: the clauses of the SET expression
UpdateUserUpdates(user) ==
    (IF user.FirstName # "" THEN <<updateExpressionPart("fieldName")>> ELSE <<>>)
        \o (IF user.LastName # "" THEN <<updateExpressionPart("lastName")>> ELSE <<>>)

\* UpdateUser: input
UpdateUserInput(user) ==
    [Key |-> MarshalMap(user),
     UpdateExpression |-> UpdateUserUpdates(user),
     ConditionExpression |-> "attribute_exists(email)",
     ExpressionAttributeValues |-> MarshalMap(user),
     ReturnValues |-> "ALL_NEW"]

\* UpdateUser: after dynaClient.UpdateItem
UpdateUserReturn(user, outcome) ==
    IF outcome.err = ConditionalCheckFailedException THEN ReturnNil(ErrorUserDoesNotExist)
    ELSE IF outcome.err # NoAwsError THEN ReturnNil(ErrorCouldNotPutItem)
    ELSE LET new == UnmarshalMap(outcome.out, user)
         IN  IF new.err THEN ReturnNil(ErrorFailedToUnmarshalRecord)
             ELSE Return(<<new.user>>, NoError)

\* DeleteUser: input
DeleteUserInput(user) ==
    [Key |-> MarshalMap(user),
     ConditionExpression |-> "attribute_exists(email)"]

\* DeleteUser: after dynaClient.DeleteItem (it returns an error only)
DeleteUserReturn(outcome) ==
    IF outcome.err = NoAwsError THEN ReturnNil(NoError)
    ELSE IF outcome.err = ConditionalCheckFailedException
    THEN ReturnNil(ErrorUserDoesNotExist)
    ELSE ReturnNil(ErrorCouldNotDeleteItem)

(***************************************************************************)
(* pkg/handlers: the dispatch layer.  A response is a status code and a    *)
(* JSON body.                                                              *)
(***************************************************************************)
\* ErrorBody{aws.String(err.Error())}
ErrorBody(msg) == [kind |-> "error", text |-> msg, data |-> <<>>]

\* The JSON of a storage-layer result: one user, a list of users, or null.
UserBody(ret) == [kind |-> IF ret.nil THEN "null" ELSE "user", text |-> "", data |-> ret.val]
UsersBody(ret) == [kind |-> IF ret.nil THEN "null" ELSE "users", text |-> "", data |-> ret.val]
NullBody == [kind |-> "null", text |-> "", data |-> <<>>]
StringBody(s) == [kind |-> "string", text |-> s, data |-> <<>>]

apiResponse(status, body) == [statusCode |-> status, body |-> body]

GetUserResponse(ret, one) ==
    IF ret.err # NoError
    THEN apiResponse(StatusInternalServerError, ErrorBody(ret.err))
    ELSE apiResponse(StatusOK, IF one THEN UserBody(ret) ELSE UsersBody(ret))

CreateUserResponseStatusOK(ret) ==
    IF ret.err # NoError
    THEN apiResponse(StatusInternalServerError, ErrorBody(ret.err))
    ELSE apiResponse(StatusOK, UserBody(ret))

CreateUserResponse(ret) ==
    IF ret.err # NoError
    THEN apiResponse(StatusInternalServerError, ErrorBody(ret.err))
    ELSE apiResponse(StatusCreated, UserBody(ret))

UpdateUserResponse(ret) ==
    IF ret.err # NoError
    THEN apiResponse(StatusInternalServerError, ErrorBody(ret.err))
    ELSE apiResponse(StatusCreated, UserBody(ret))

DeleteUserResponse(ret) ==
    IF ret.err # NoError
    THEN apiResponse(StatusInternalServerError, ErrorBody(ret.err))
    ELSE apiResponse(StatusNoContent, NullBody)

UnhandledMethodResponse ==
    apiResponse(StatusMethodNotAllowed, StringBody(ErrorMethodNotAllowed))

(***************************************************************************)
(* The invocations.  A client is idle, in a request that waits for its     *)
(* backend call (pc names the call), or done, holding the response of its  *)
(* last request until it sends the next one.                               *)
(*   op      the handler serving the request                               *)
(*   fn      the storage function the handler called                       *)
(*   email   GetUser: the email path parameter                             *)
(*   parsed  whether json.Unmarshal accepted the body                      *)
(*   user    the User decoded from the body                                *)
(*   esk     FetchUsers: input.ExclusiveStartKey                           *)
(*   users   FetchUsers: the users accumulated                             *)
(*   awsErr  the error of the last backend call                            *)
(*   calls   the number of backend calls the request has issued            *)
(*   ret     what the storage function returned                            *)
(*   resp    the response                                                  *)
(* and, to state properties of histories,                                  *)
(*   stale   FetchUsers: a write happened since the scan began             *)
(*   peers   the clients whose request was in flight together with this    *)
(*           one                                                           *)
(***************************************************************************)
PathParameters(emails) ==
    { [k \in {} |-> ""] } \cup { [k \in {"email"} |-> e] : e \in emails \cup {""} }

\* req.PathParameters["email"]: the zero value when the key is absent
PathParameter(params, name) == IF name \in DOMAIN params THEN params[name] ELSE ""

NoReturn == ReturnNil(NoError)
NoResponse == apiResponse(0, NullBody)

IdleClient ==
    [pc |-> "idle", op |-> "", fn |-> "", email |-> "", parsed |-> FALSE,
     user |-> ZeroUser, esk |-> NoKey, users |-> <<>>, awsErr |-> NoAwsError,
     calls |-> 0, ret |-> NoReturn, resp |-> NoResponse,
     stale |-> FALSE, peers |-> {}]

InFlight(d) == clients[d].pc \notin {"idle", "done"}

CanInvoke(c) == clients[c].pc \in {"idle", "done"}

\* Client c replaces its record by that of a new request.
Begin(c, rec) ==
    clients' =
        [d \in DOMAIN clients |->
            IF d = c
            THEN [rec EXCEPT !.peers = IF rec.pc = "done" THEN {}
                                       ELSE { x \in DOMAIN clients \ {c} : InFlight(x) }]
            ELSE IF InFlight(d) /\ rec.pc # "done"
            THEN [clients[d] EXCEPT !.peers = @ \cup {c}]
            ELSE [clients[d] EXCEPT !.peers = @ \ {c}]]

\* Client c's backend call returns; wrote: the call changed the table.
Continue(c, rec, wrote) ==
    clients' =
        [d \in DOMAIN clients |->
            IF d = c THEN rec
            ELSE IF wrote /\ clients[d].pc = "Scan"
            THEN [clients[d] EXCEPT !.stale = TRUE]
            ELSE clients[d]]

\* The table is empty at first.  Either one client sends requests about
\* any of the emails, or all clients send requests about one email.
Init ==
    /\ table = EmptyTable
    /\ created = [k \in {} |-> ZeroUser]
    /\ \/ /\ clients = [c \in {"c1"} |-> IdleClient]
          /\ keys = WellFormedEmails
       \/ /\ clients = [c \in Clients |-> IdleClient]
          /\ keys = {"a@x.com"}

\* handlers.GetUser up to the backend call of FetchUser or FetchUsers
GetUser(c) ==
    /\ CanInvoke(c)
    /\ \E params \in PathParameters(keys) :
         LET email == PathParameter(params, "email")
         IN  Begin(c, [IdleClient EXCEPT
                          !.op = "GetUser",
                          !.email = email,
                          !.fn = IF Len(email) > 0 THEN "FetchUser" ELSE "FetchUsers",
                          !.pc = IF Len(email) > 0 THEN "GetItem" ELSE "Scan"])
    /\ UNCHANGED <<table, keys, created>>

\* FetchUser: dynaClient.GetItem and the return; handlers.GetUser: the response
GetItemStep(c) ==
    /\ clients[c].pc = "GetItem"
    /\ UNCHANGED <<keys, created>>
    /\ \E fault \in BOOLEAN :
         LET outcome == GetItem(table, FetchUserInput(clients[c].email), fault)
             ret == FetchUserReturn(outcome)
         IN  /\ table' = outcome.table
             /\ Continue(c, [clients[c] EXCEPT
                                !.pc = "done",
                                !.awsErr = outcome.err,
                                !.calls = @ + 1,
                                !.ret = ret,
                                !.resp = GetUserResponse(ret, TRUE)], FALSE)

\* FetchUsers: one turn of the loop (dynaClient.Scan, append, continue or
\* break) and, when the loop ends, the return; handlers.GetUser: the response
ScanStep(c) ==
    /\ clients[c].pc = "Scan"
    /\ UNCHANGED <<keys, created>>
    /\ \E pageSize \in 1..MaxPageSize, eager \in BOOLEAN, fault \in BOOLEAN :
         LET result == Scan(table, FetchUsersInput(clients[c].esk), pageSize, eager, fault)
             items == UnmarshalListOfMaps(result.Items)
             users == AppendUsers(clients[c].users, items.users)
             called == [clients[c] EXCEPT !.awsErr = result.err, !.calls = @ + 1]
             finish(ret) == [called EXCEPT !.pc = "done", !.ret = ret,
                                           !.resp = GetUserResponse(ret, FALSE)]
         IN  /\ UNCHANGED table
             /\ IF result.err # NoAwsError
                THEN Continue(c, finish(ReturnNil(ErrorFailedToFetchRecord)), FALSE)
                ELSE IF items.err
                THEN Continue(c, finish(ReturnNil(ErrorFailedToUnmarshalRecord)), FALSE)
                ELSE IF result.LastEvaluatedKey # NoKey
                THEN Continue(c, [called EXCEPT !.users = users,
                                                !.esk = result.LastEvaluatedKey], FALSE)
                ELSE Continue(c, finish(Return(users, NoError)), FALSE)

\* handlers.CreateUser and user.CreateUser up to the backend call
CreateUser(c) ==
    /\ CanInvoke(c)
    /\ \E body \in Bodies(keys) :
         LET decoded == jsonUnmarshal(body, ZeroUser)
             req == [IdleClient EXCEPT !.op = "CreateUser", !.fn = "CreateUser",
                                       !.parsed = ~decoded.err, !.user = decoded.user]
             fail(msg) == [req EXCEPT !.pc = "done", !.ret = ReturnNil(msg),
                                      !.resp = CreateUserResponse(ReturnNil(msg))]
         IN  IF decoded.err THEN Begin(c, fail(ErrorInvalidUserData))
             ELSE IF ParseAddressFails(decoded.user.Email)
             THEN Begin(c, fail(ErrorInvalidEmail))
             ELSE Begin(c, [req EXCEPT !.pc = "PutItem"])
    /\ UNCHANGED <<table, keys, created>>

\* user.CreateUser: dynaClient.PutItem and the return; handlers.CreateUser:
\* the response
PutItemStep(c) ==
    /\ clients[c].pc = "PutItem"
    /\ UNCHANGED keys
    /\ \E fault \in BOOLEAN :
         LET outcome == PutItem(table, CreateUserInput(clients[c].user), fault)
             ret == CreateUserReturn(clients[c].user, outcome)
         IN  /\ table' = outcome.table
             /\ created' = IF outcome.err = NoAwsError
                           THEN Store(created, clients[c].user.Email, clients[c].user)
                           ELSE created
             /\ Continue(c, [clients[c] EXCEPT
                                !.pc = "done",
                                !.awsErr = outcome.err,
                                !.calls = @ + 1,
                                !.ret = ret,
                                !.resp = CreateUserResponse(ret)],
                         outcome.err = NoAwsError)

\* handlers.UpdateUser and user.UpdateUser up to the backend call
UpdateUser(c) ==
    /\ CanInvoke(c)
    /\ \E body \in Bodies(keys) :
         LET decoded == jsonUnmarshal(body, ZeroUser)
             req == [IdleClient EXCEPT !.op = "UpdateUser", !.fn = "UpdateUser",
                                       !.parsed = ~decoded.err, !.user = decoded.user]
             fail(msg) == [req EXCEPT !.pc = "done", !.ret = ReturnNil(msg),
                                      !.resp = UpdateUserResponse(ReturnNil(msg))]
         IN  IF decoded.err THEN Begin(c, fail(ErrorInvalidUserData))
             ELSE Begin(c, [req EXCEPT !.pc = "UpdateItem"])
    /\ UNCHANGED <<table, keys, created>>

\* user.UpdateUser: dynaClient.UpdateItem and the return;
\* handlers.UpdateUser: the response
UpdateItemStep(c) ==
    /\ clients[c].pc = "UpdateItem"
    /\ UNCHANGED keys
    /\ \E fault \in BOOLEAN :
         LET outcome == UpdateItem(table, UpdateUserInput(clients[c].user), fault)
             ret == UpdateUserReturn(clients[c].user, outcome)
         IN  /\ table' = outcome.table
             /\ created' = IF outcome.err = NoAwsError
                           THEN Remove(created, clients[c].user.Email)
                           ELSE created
             /\ Continue(c, [clients[c] EXCEPT
                                !.pc = "done",
                                !.awsErr = outcome.err,
                                !.calls = @ + 1,
                                !.ret = ret,
                                !.resp = UpdateUserResponse(ret)],
                         outcome.err = NoAwsError)

\* handlers.DeleteUser and user.DeleteUser up to the backend call
DeleteUser(c) ==
    /\ CanInvoke(c)
    /\ \E body \in Bodies(keys) :
         LET decoded == jsonUnmarshal(body, ZeroUser)
             req == [IdleClient EXCEPT !.op = "DeleteUser", !.fn = "DeleteUser",
                                       !.parsed = ~decoded.err, !.user = decoded.user]
             fail(msg) == [req EXCEPT !.pc = "done", !.ret = ReturnNil(msg),
                                      !.resp = DeleteUserResponse(ReturnNil(msg))]
         IN  IF decoded.err THEN Begin(c, fail(ErrorInvalidUserData))
             ELSE Begin(c, [req EXCEPT !.pc = "DeleteItem"])
    /\ UNCHANGED <<table, keys, created>>

\* user.DeleteUser: dynaClient.DeleteItem and the return;
\* handlers.DeleteUser: the response
DeleteItemStep(c) ==
    /\ clients[c].pc = "DeleteItem"
    /\ UNCHANGED keys
    /\ \E fault \in BOOLEAN :
         LET outcome == DeleteItem(table, DeleteUserInput(clients[c].user), fault)
             ret == DeleteUserReturn(outcome)
         IN  /\ table' = outcome.table
             /\ created' = IF outcome.err = NoAwsError
                           THEN Remove(created, clients[c].user.Email)
                           ELSE created
             /\ Continue(c, [clients[c] EXCEPT
                                !.pc = "done",
                                !.awsErr = outcome.err,
                                !.calls = @ + 1,
                                !.ret = ret,
                                !.resp = DeleteUserResponse(ret)],
                         outcome.err = NoAwsError)

\* handlers.UnhandledMethod
UnhandledMethod(c) ==
    /\ CanInvoke(c)
    /\ Begin(c, [IdleClient EXCEPT !.op = "UnhandledMethod", !.pc = "done",
                                   !.resp = UnhandledMethodResponse])
    /\ UNCHANGED <<table, keys, created>>

Next ==
    \/ \E c \in DOMAIN clients : GetUser(c)
    \/ \E c \in DOMAIN clients : GetItemStep(c)
    \/ \E c \in DOMAIN clients : ScanStep(c)
    \/ \E c \in DOMAIN clients : CreateUser(c)
    \/ \E c \in DOMAIN clients : PutItemStep(c)
    \/ \E c \in DOMAIN clients : UpdateUser(c)
    \/ \E c \in DOMAIN clients : UpdateItemStep(c)
    \/ \E c \in DOMAIN clients : DeleteUser(c)
    \/ \E c \in DOMAIN clients : DeleteItemStep(c)
    \/ \E c \in DOMAIN clients : UnhandledMethod(c)

Spec == Init /\ [][Next]_vars

(***************************************************************************)
(* Properties.                                                             *)
(***************************************************************************)
Done(c) == clients[c].pc = "done"

\* This step is the return of a backend call that client c issued from pc.
Called(c, pc) ==
    /\ clients[c].pc = pc
    /\ clients'[c].calls = clients[c].calls + 1

\* The backend call that returns in this step did not fail for a reason of
\* the service.
Served(c) == clients'[c].awsErr # InternalServerError

\* The users of the items of a table, in scan order.
UsersOf(tbl) ==
    LET all == KeysAfter(tbl, NoKey)
    IN  [i \in 1..Len(all) |-> UnmarshalMap(tbl[all[i]], ZeroUser).user]

\* C1: a FetchUser of an email whose record was written by a successful
\* CreateUser of the User u, with no write to the key since, returns a User
\* whose email, firstName and lastName are those of u (unless the backend
\* call fails); the CreateUser itself returned u.
CreateThenFetchReturnsUser ==
    [][\A c \in DOMAIN clients :
          /\ (Called(c, "GetItem") /\ Served(c) /\ clients[c].email \in DOMAIN created)
                => clients'[c].ret = Return(<<created[clients[c].email]>>, NoError)
          /\ (Called(c, "PutItem") /\ clients'[c].ret.err = NoError)
                => /\ clients'[c].ret = Return(<<clients[c].user>>, NoError)
                   /\ ~ParseAddressFails(clients[c].user.Email)
                   /\ clients[c].user.Email \notin DOMAIN table]_vars

CreateThenFetchWitness ==
    \E c \in DOMAIN clients :
        /\ Done(c) /\ clients[c].fn = "FetchUser"
        /\ clients[c].email \in DOMAIN created
        /\ created[clients[c].email].FirstName # ""
        /\ created[clients[c].email].LastName = ""
        /\ clients[c].ret = Return(<<created[clients[c].email]>>, NoError)

\* C2: a CreateUser whose email has a record in the table leaves the table
\* as it was and returns an error: "user already exists", unless the backend
\* call fails.
CreateExistingFails ==
    [][\A c \in DOMAIN clients :
          (Called(c, "PutItem") /\ clients[c].user.Email \in DOMAIN table)
             => /\ table' = table
                /\ clients'[c].ret.nil
                /\ clients'[c].ret.err \in {ErrorUserAlreadyExists, ErrorCouldNotPutItem}
                /\ Served(c) => clients'[c].ret.err = ErrorUserAlreadyExists]_vars

CreateExistingWitness ==
    \E c \in DOMAIN clients :
        /\ Done(c) /\ clients[c].fn = "CreateUser"
        /\ clients[c].ret.err = ErrorUserAlreadyExists
        /\ clients[c].user.Email \in DOMAIN table
        /\ table[clients[c].user.Email] # MarshalMap(clients[c].user)

\* C3: a FetchUser of an email that has no record in the table returns an
\* error and no User.
FetchMissingReturnsError ==
    [][\A c \in DOMAIN clients :
          (Called(c, "GetItem") /\ clients[c].email \notin DOMAIN table)
             => /\ clients'[c].ret.nil
                /\ clients'[c].ret.err = ErrorFailedToFetchRecord]_vars

\* The record of key e after an update by the User u: the non-empty name
\* fields of u replace those of the record.
Updated(old, u) ==
    User(old.Email,
         IF u.FirstName # "" THEN u.FirstName ELSE old.FirstName,
         IF u.LastName # "" THEN u.LastName ELSE old.LastName)

\* C4: an UpdateUser whose email has a record overwrites the name fields
\* that are non-empty in the body, leaves the other fields and the other
\* records as they were, and returns the record after the update (unless
\* the backend call fails).
UpdateOverwritesNonEmptyFields ==
    [][\A c \in DOMAIN clients :
          (Called(c, "UpdateItem") /\ Served(c) /\ clients[c].user.Email \in DOMAIN table)
             => LET e == clients[c].user.Email
                    new == Updated(UnmarshalMap(table[e], ZeroUser).user, clients[c].user)
                IN  /\ table' = Store(table, e, MarshalMap(new))
                    /\ clients'[c].ret = Return(<<new>>, NoError)]_vars

\* C5: an UpdateUser whose email has no record returns "user does not
\* exist" (unless the backend call fails) and leaves the table as it was.
UpdateMissingFails ==
    [][\A c \in DOMAIN clients :
          (Called(c, "UpdateItem") /\ Served(c) /\ clients[c].user.Email \notin DOMAIN table)
             => /\ table' = table
                /\ clients'[c].ret.err = ErrorUserDoesNotExist]_vars

\* C6: a DeleteUser whose email has no record returns "user does not exist"
\* and leaves the table as it was; one whose email has a record succeeds and
\* removes that record alone (unless the backend call fails).
DeleteRemovesExistingOnly ==
    [][\A c \in DOMAIN clients :
          (Called(c, "DeleteItem") /\ Served(c))
             => LET e == clients[c].user.Email
                IN  IF e \in DOMAIN table
                    THEN /\ table' = Remove(table, e)
                         /\ clients'[c].ret.err = NoError
                    ELSE /\ table' = table
                         /\ clients'[c].ret.err = ErrorUserDoesNotExist]_vars

\* C7: every page of a FetchUsers moves the scan past at least one key that
\* was left; a FetchUsers that ends without an error, with no write to the
\* table since it began, returns the users of the records of the table, each
\* once, in scan order, after at most one page more than there are records.
FetchAllReturnsEveryRecord ==
    [][\A c \in DOMAIN clients :
          Called(c, "Scan")
             => /\ clients'[c].pc = "Scan"
                     => Len(KeysAfter(table, clients'[c].esk))
                            < Len(KeysAfter(table, clients[c].esk))
                /\ (clients'[c].pc = "done" /\ clients'[c].ret.err = NoError
                        /\ ~clients[c].stale)
                     => /\ clients'[c].ret = Return(UsersOf(table), NoError)
                        /\ clients'[c].calls <= Cardinality(DOMAIN table) + 1]_vars

FetchAllWitness ==
    \E c \in DOMAIN clients :
        /\ Done(c) /\ clients[c].fn = "FetchUsers"
        /\ ~clients[c].stale
        /\ clients[c].ret = Return(UsersOf(table), NoError)
        /\ Len(clients[c].ret.val) = 2
        /\ clients[c].calls = 3

\* C8: of two CreateUser requests for the same email that were in flight
\* together, at most one succeeds; when one does, the record of the email is
\* the item of its User, and the other returns "user already exists"
\* (unless its backend call fails).
ConcurrentCreatesOneWins ==
    \A c1, c2 \in DOMAIN clients :
        (/\ c1 # c2
         /\ Done(c1) /\ clients[c1].fn = "CreateUser"
         /\ Done(c2) /\ clients[c2].fn = "CreateUser"
         /\ clients[c1].user.Email = clients[c2].user.Email
         /\ c2 \in clients[c1].peers
         /\ clients[c1].ret.err = NoError)
            => /\ clients[c2].ret.err # NoError
               /\ clients[c2].awsErr # InternalServerError
                     => clients[c2].ret.err = ErrorUserAlreadyExists
               /\ clients[c1].user.Email \in DOMAIN table
               /\ table[clients[c1].user.Email] = MarshalMap(clients[c1].user)

ConcurrentCreatesWitness ==
    \E c1, c2 \in DOMAIN clients :
        /\ c1 # c2
        /\ Done(c1) /\ clients[c1].fn = "CreateUser"
        /\ Done(c2) /\ clients[c2].fn = "CreateUser"
        /\ clients[c1].user.Email = clients[c2].user.Email
        /\ clients[c1].user # clients[c2].user
        /\ c2 \in clients[c1].peers
        /\ clients[c1].ret.err = NoError
        /\ clients[c2].ret.err = ErrorUserAlreadyExists

\* A CreateUser request whose body is not JSON or whose email is not
\* well-formed.
Rejected(r) ==
    /\ r.op = "CreateUser"
    /\ ~r.parsed \/ r.user.Email \notin WellFormedEmails

\* C9: a CreateUser whose body does not parse returns "invalid user data",
\* one whose email is not well-formed returns "invalid email"; either is
\* done without a backend call, and the table is as it was.
InvalidCreateWritesNothing ==
    [][\A c \in DOMAIN clients :
          (Rejected(clients'[c]) /\ clients'[c] # clients[c])
             => /\ table' = table
                /\ clients'[c].pc = "done"
                /\ clients'[c].calls = 0
                /\ clients'[c].awsErr = NoAwsError
                /\ clients'[c].ret =
                      ReturnNil(IF clients'[c].parsed THEN ErrorInvalidEmail
                                ELSE ErrorInvalidUserData)]_vars

InvalidCreateWitness ==
    \E c \in DOMAIN clients :
        /\ Done(c) /\ Rejected(clients[c])
        /\ clients[c].ret = ReturnNil(ErrorInvalidEmail)
        /\ clients[c].calls = 0
        /\ DOMAIN table # {}

\* The status the dispatch layer gives an operation: by the operation and
\* by whether the storage call returned an error.
ExpectedStatus(op, failed) ==
    CASE op = "UnhandledMethod" -> 405
      [] failed -> 500
      [] op = "GetUser" -> 200
      [] op = "CreateUser" -> 201
      [] op = "UpdateUser" -> 201
      [] op = "DeleteUser" -> 204

\* What a storage function may return.
StorageReturns ==
    { ReturnNil(e) : e \in {NoError, ErrorFailedToUnmarshalRecord, ErrorFailedToFetchRecord,
                            ErrorInvalidUserData, ErrorInvalidEmail, ErrorCouldNotMarshalItem,
                            ErrorCouldNotDeleteItem, ErrorCouldNotPutItem,
                            ErrorUserAlreadyExists, ErrorUserDoesNotExist} }
        \cup { Return(<<User(e, f, l)>>, NoError) :
                 e \in EmailInputs, f \in NameInputs \cup {""}, l \in NameInputs \cup {""} }

Conforms(resp, op, ret) ==
    /\ resp.statusCode = ExpectedStatus(op, ret.err # NoError)
    /\ ret.err # NoError => resp.body = ErrorBody(ret.err)

\* C10: the status of every response is the one of its operation and of
\* whether the storage call failed (GetUser 200, CreateUser 201, UpdateUser
\* 201, DeleteUser 204; 500 with the error message on any error; 405 for
\* UnhandledMethod), for the responses sent and for everything a storage
\* function may return; GetUser calls FetchUser when the email parameter is
\* non-empty and FetchUsers otherwise.
StatusByOperationAndFailure ==
    /\ \A c \in DOMAIN clients :
          /\ Done(c) => Conforms(clients[c].resp, clients[c].op, clients[c].ret)
          /\ clients[c].op = "GetUser"
                => clients[c].fn = IF clients[c].email # "" THEN "FetchUser" ELSE "FetchUsers"
    /\ \A ret \in StorageReturns :
          /\ Conforms(GetUserResponse(ret, TRUE), "GetUser", ret)
          /\ Conforms(GetUserResponse(ret, FALSE), "GetUser", ret)
          /\ Conforms(CreateUserResponse(ret), "CreateUser", ret)
          /\ Conforms(UpdateUserResponse(ret), "UpdateUser", ret)
          /\ Conforms(DeleteUserResponse(ret), "DeleteUser", ret)
    /\ UnhandledMethodResponse.statusCode = ExpectedStatus("UnhandledMethod", FALSE)

StatusWitness ==
    \E c1, c2 \in DOMAIN clients :
        /\ Done(c1) /\ clients[c1].op = "CreateUser"
        /\ clients[c1].resp = apiResponse(201, UserBody(Return(<<clients[c1].user>>, NoError)))
        /\ Done(c2) /\ clients[c2].op = "DeleteUser"
        /\ clients[c2].resp = apiResponse(500, ErrorBody(ErrorCouldNotDeleteItem))

=============================================================================
